---- MODULE Spec2Model ----
(***************************************************************************)
(* A model of the SMTP receiver (smtp_server.py) and the POP3 server       *)
(* (pop3_server.py), which share one directory of message files.           *)
(*                                                                         *)
(* A text is a sequence of characters (one-character strings); a wire line *)
(* is the text readline() hands to the session, terminator included.       *)
(* An optional value (Python's None or a value) is a sequence of length 0  *)
(* or 1.                                                                   *)
(***************************************************************************)
EXTENDS Integers, Sequences, FiniteSets, TLC

VARIABLES
    mailbox,  \* the mailbox directory: file name -> the record save_email wrote
    clock,    \* datetime.utcnow(), in seconds
    issued,   \* the uuid4 values drawn so far
    smtp,     \* per SMTP connection: position in handle_client and its `state`
    pop,      \* per POP3 connection: POP3Session and its Maildrop
    last      \* the last exchange: who read what and what was written back

vars == <<mailbox, clock, issued, smtp, pop, last>>

\* ---- bounds of the model ------------------------------------------------
MaxFiles == 2
MaxClock == 1
MaxRcpt == 2
MaxLines == 2

SmtpIds == {"s1", "s2"}
PopIds == {"p1", "p2"}

\* ---- texts ----------------------------------------------------------------
None == <<>>
Some(x) == <<x>>

CR == "\r"
LF == "\n"
\* one byte outside ASCII, as it arrives on the wire
Byte8 == "0xE9"

LowerLetters == <<"a", "d", "e", "f", "i", "l", "m", "o", "p", "q", "r", "s", "t", "u", "x">>
UpperLetters == <<"A", "D", "E", "F", "I", "L", "M", "O", "P", "Q", "R", "S", "T", "U", "X">>

UpperChar(ch) ==
    IF \E i \in 1..Len(LowerLetters) : LowerLetters[i] = ch
    THEN UpperLetters[CHOOSE i \in 1..Len(LowerLetters) : LowerLetters[i] = ch]
    ELSE ch

\* str.upper()
Upper(s) == [i \in 1..Len(s) |-> UpperChar(s[i])]

\* str.startswith(p)
StartsWith(s, p) == Len(s) >= Len(p) /\ SubSeq(s, 1, Len(p)) = p

IsSpace(ch) == ch \in {" ", "\t", CR, LF}

SetMin(S) == CHOOSE x \in S : \A y \in S : x <= y

\* first position >= i that holds no whitespace (Len(s)+1 when there is none)
SkipSpaces(s, i) ==
    SetMin({j \in i..(Len(s) + 1) : j = Len(s) + 1 \/ ~IsSpace(s[j])})

\* first position >= i that holds whitespace (Len(s)+1 when there is none)
SkipToken(s, i) ==
    SetMin({j \in i..(Len(s) + 1) : j = Len(s) + 1 \/ IsSpace(s[j])})

\* str.split(): the whitespace-separated tokens of s from position i on
RECURSIVE SplitFrom(_, _)
SplitFrom(s, i) ==
    LET a == SkipSpaces(s, i) IN
    IF a > Len(s) THEN <<>>
    ELSE LET b == SkipToken(s, a) IN <<SubSeq(s, a, b - 1)>> \o SplitFrom(s, b)

Split(s) == SplitFrom(s, 1)

\* bytes.decode("ascii"): fails on a byte outside ASCII
AsciiDecodable(data) == \A i \in 1..Len(data) : data[i] # Byte8

\* str.rstrip("\r\n")
RECURSIVE RStripCRLF(_)
RStripCRLF(s) ==
    IF Len(s) > 0 /\ s[Len(s)] \in {CR, LF} THEN RStripCRLF(SubSeq(s, 1, Len(s) - 1))
    ELSE s

\* "\n".join(lines)
RECURSIVE JoinLF(_)
JoinLF(lines) ==
    IF Len(lines) = 0 THEN <<>>
    ELSE IF Len(lines) = 1 THEN lines[1]
    ELSE lines[1] \o <<LF>> \o JoinLF(Tail(lines))

\* ---- the words of the two protocols ---------------------------------------
W_HELO == <<"H", "E", "L", "O">>
W_MAILFROM == <<"M", "A", "I", "L", " ", "F", "R", "O", "M", ":">>
W_RCPTTO == <<"R", "C", "P", "T", " ", "T", "O", ":">>
W_DATA == <<"D", "A", "T", "A">>
W_QUIT == <<"Q", "U", "I", "T">>
W_NOOP == <<"N", "O", "O", "P">>
CRLF == <<CR, LF>>

\* ---- SMTP: parsing ----------------------------------------------------------
\* message.split(maxsplit=1): the part after the first token, if any
HeloArg(message) ==
    LET a == SkipSpaces(message, 1)
        b == SkipToken(message, a)
        c == SkipSpaces(message, b)
    IN  IF c > Len(message) THEN None ELSE Some(SubSeq(message, c, Len(message)))

\* re.match(r"<prefix>\s*<([^>]+)>", message, re.IGNORECASE), the prefix of
\* length n already known to match: the address, if any
MatchAddress(message, n) ==
    LET a == SkipSpaces(message, n + 1) IN
    IF a > Len(message) \/ message[a] # "<" THEN None
    ELSE LET closers == {j \in (a + 1)..Len(message) : message[j] = ">"} IN
         IF closers = {} \/ SetMin(closers) = a + 1 THEN None
         ELSE Some(SubSeq(message, a + 1, SetMin(closers) - 1))

\* ---- SMTP: the command loop -------------------------------------------------
\* `not state["helo"]` is false
HeloGiven(st) == st.helo # None /\ st.helo # Some(<<>>)

\* `not state["mail_from"]` is false
SenderSet(st) == st.mail_from # None /\ st.mail_from # Some(<<>>)

\* the recipient check left out
HasRecipients_Unchecked(st) == TRUE

\* `not state["rcpt_to"]` is false
HasRecipients(st) == Len(st.rcpt_to) > 0

SmtpState0 ==
    [pc |-> "cmd", helo |-> None, mail_from |-> None, rcpt_to |-> <<>>,
     data |-> None, lines |-> <<>>]

\* the recipients of the transaction before kept
MailAccepted_KeepRcpt(st, match) == [st EXCEPT !.mail_from = match, !.data = None]

\* MAIL FROM with a well-formed address: a new transaction begins
MailAccepted(st, match) == [st EXCEPT !.mail_from = match, !.rcpt_to = <<>>, !.data = None]

\* One pass of the command loop over a decoded line: the new state and the
\* reply codes written.
SmtpCommand(st, message) ==
    LET cmd_upper == Upper(message) IN
    IF StartsWith(cmd_upper, W_HELO) THEN
        [st |-> [st EXCEPT !.helo = HeloArg(message)], replies |-> <<250>>]
    ELSE IF StartsWith(cmd_upper, W_MAILFROM) THEN
        IF ~HeloGiven(st) THEN [st |-> st, replies |-> <<503>>]
        ELSE LET match == MatchAddress(message, Len(W_MAILFROM)) IN
             IF match # None
             THEN [st |-> MailAccepted(st, match), replies |-> <<250>>]
             ELSE [st |-> st, replies |-> <<501>>]
    ELSE IF StartsWith(cmd_upper, W_RCPTTO) THEN
        IF ~SenderSet(st) THEN [st |-> st, replies |-> <<503>>]
        ELSE LET match == MatchAddress(message, Len(W_RCPTTO)) IN
             IF match # None
             THEN [st |-> [st EXCEPT !.rcpt_to = Append(@, match[1])], replies |-> <<250>>]
             ELSE [st |-> st, replies |-> <<501>>]
    ELSE IF cmd_upper = W_DATA THEN
        IF ~HasRecipients(st) THEN [st |-> st, replies |-> <<503>>]
        ELSE [st |-> [st EXCEPT !.pc = "data", !.lines = <<>>], replies |-> <<354>>]
    ELSE IF cmd_upper = W_QUIT THEN
        [st |-> [st EXCEPT !.pc = "closed"], replies |-> <<221>>]
    ELSE [st |-> st, replies |-> <<502>>]

\* ---- the message store --------------------------------------------------------
Uuids == 1..MaxFiles

\* Message files sort by name: "%Y%m%d%H%M%S" + "_" + uuid + ".eml"
NameLess(f, g) == f.ts < g.ts \/ (f.ts = g.ts /\ f.id < g.id)

\* str(x) for an optional text: str(None) is "None"
StrOpt(x) == IF x = None THEN <<"N", "o", "n", "e">> ELSE x[1]

\* only the first recipient written
ToLines_First(rcpt_to) ==
    IF Len(rcpt_to) = 0 THEN <<>>
    ELSE <<"T", "o", ":", " ">> \o rcpt_to[1] \o <<LF>>

RECURSIVE ToLines(_)
ToLines(rcpt_to) ==
    IF Len(rcpt_to) = 0 THEN <<>>
    ELSE <<"T", "o", ":", " ">> \o rcpt_to[1] \o <<LF>> \o ToLines(Tail(rcpt_to))

\* what save_email writes into the file
FileText(rec) ==
    <<"F", "r", "o", "m", ":", " ">> \o StrOpt(rec.mail_from) \o <<LF>>
        \o ToLines(rec.rcpt_to) \o <<LF>> \o rec.body

\* the file named after the clock alone: open(filepath, "w") truncates a file
\* of that name
SaveEmail_ByClock(mail_from, rcpt_to, body) ==
    \E u \in Uuids \ issued :
        LET filename == [ts |-> clock, id |-> 0] IN
        /\ mailbox' = [f \in DOMAIN mailbox \cup {filename} |->
                          IF f = filename
                          THEN [mail_from |-> mail_from, rcpt_to |-> rcpt_to,
                                body |-> body, mtime |-> clock]
                          ELSE mailbox[f]]
        /\ issued' = issued \cup {u}

\* save_email: a new file named after the clock and a fresh uuid4
SaveEmail(mail_from, rcpt_to, body) ==
    \E u \in Uuids \ issued :
        LET filename == [ts |-> clock, id |-> u] IN
        /\ mailbox' = mailbox @@
               (filename :> [mail_from |-> mail_from, rcpt_to |-> rcpt_to,
                             body |-> body, mtime |-> clock])
        /\ issued' = issued \cup {u}

\* ---- SMTP: the DATA phase -------------------------------------------------------
\* the first dot of every line that begins with a dot removed
Unstuff_AnyDot(line) == IF StartsWith(line, <<".">>) THEN Tail(line) ELSE line

\* the transparency rule
Unstuff(line) == IF StartsWith(line, <<".", ".">>) THEN Tail(line) ELSE line

\* the state after the read loop of the DATA phase has ended
AfterData(st) == [st EXCEPT !.pc = "cmd", !.data = Some(JoinLF(st.lines)), !.lines = <<>>]

\* An exchange: connection `sess`, in position `was`, met the event `ev` ("line",
\* "eof", "error", "save") with the wire line `line`, and `replies` were written;
\* for a POP3 connection `before` is what STAT and LIST showed when it happened.
Exchange(c, ev, was, line, replies) ==
    [sess |-> c, ev |-> ev, was |-> was, line |-> line, replies |-> replies,
     before |-> <<>>]

\* ---- SMTP: actions ----------------------------------------------------------------
\* handle_client reads one line in the command loop
SmtpReadCommand(c, data) ==
    /\ smtp[c].pc = "cmd"
    /\ IF ~AsciiDecodable(data)
       THEN \* UnicodeDecodeError leaves handle_client
            /\ smtp' = [smtp EXCEPT ![c].pc = "closed"]
            /\ last' = Exchange(c, "line", "cmd", data, <<>>)
       ELSE \E r \in {SmtpCommand(smtp[c], RStripCRLF(data))} :
            /\ Len(r.st.rcpt_to) <= MaxRcpt
            /\ smtp' = [smtp EXCEPT ![c] = r.st]
            /\ last' = Exchange(c, "line", "cmd", data, r.replies)
    /\ UNCHANGED <<mailbox, clock, issued, pop>>

\* no read loop of its own for the body: its lines go through the command loop
SmtpReadData_Commands(c, data) ==
    /\ smtp[c].pc = "data"
    /\ \E r \in {SmtpCommand([smtp[c] EXCEPT !.pc = "cmd"], RStripCRLF(data))} :
          /\ smtp' = [smtp EXCEPT ![c] = r.st]
          /\ last' = Exchange(c, "line", "data", data, r.replies)
    /\ UNCHANGED <<mailbox, clock, issued, pop>>

\* handle_client reads one line in the DATA phase
SmtpReadData(c, data) ==
    /\ smtp[c].pc = "data"
    /\ IF ~AsciiDecodable(data)
       THEN \* UnicodeDecodeError leaves handle_client
            /\ smtp' = [smtp EXCEPT ![c].pc = "closed"]
            /\ last' = Exchange(c, "line", "data", data, <<>>)
            /\ UNCHANGED <<mailbox, issued>>
       ELSE IF RStripCRLF(data) = <<".">>
       THEN /\ SaveEmail(smtp[c].mail_from, smtp[c].rcpt_to, JoinLF(smtp[c].lines))
            /\ smtp' = [smtp EXCEPT ![c] = AfterData(smtp[c])]
            /\ last' = Exchange(c, "line", "data", data, <<250>>)
       ELSE /\ Len(smtp[c].lines) < MaxLines
            /\ smtp' = [smtp EXCEPT ![c].lines = Append(@, Unstuff(RStripCRLF(data)))]
            /\ last' = Exchange(c, "line", "data", data, <<>>)
            /\ UNCHANGED <<mailbox, issued>>
    /\ UNCHANGED <<clock, pop>>

\* readline() returns b"": the peer has closed its end
SmtpEof(c) ==
    /\ \/ /\ smtp[c].pc = "cmd"
          /\ smtp' = [smtp EXCEPT ![c].pc = "closed"]
          /\ last' = Exchange(c, "eof", "cmd", <<>>, <<>>)
          /\ UNCHANGED <<mailbox, issued>>
       \/ \* the read loop of the DATA phase breaks, the body read so far is
          \* saved and answered, and the command loop then ends on the same b""
          /\ smtp[c].pc = "data"
          /\ SaveEmail(smtp[c].mail_from, smtp[c].rcpt_to, JoinLF(smtp[c].lines))
          /\ smtp' = [smtp EXCEPT ![c] = [AfterData(smtp[c]) EXCEPT !.pc = "closed"]]
          /\ last' = Exchange(c, "eof", "data", <<>>, <<250>>)
    /\ UNCHANGED <<clock, pop>>

\* readline() raises (the connection is reset): handle_client ends there
SmtpReadError(c) ==
    /\ smtp[c].pc \in {"cmd", "data"}
    /\ smtp' = [smtp EXCEPT ![c].pc = "closed"]
    /\ last' = Exchange(c, "error", smtp[c].pc, <<>>, <<>>)
    /\ UNCHANGED <<mailbox, clock, issued, pop>>

\* a second passes
Tick ==
    /\ clock < MaxClock
    /\ clock' = clock + 1
    /\ UNCHANGED <<mailbox, issued, smtp, pop, last>>

\* ---- POP3: configuration -------------------------------------------------------
USERNAME == <<"u", "s", "e", "r">>
PASSWORD == <<"p", "a", "s", "s">>

W_USER == <<"U", "S", "E", "R">>
W_PASS == <<"P", "A", "S", "S">>
W_STAT == <<"S", "T", "A", "T">>
W_LIST == <<"L", "I", "S", "T">>
W_RETR == <<"R", "E", "T", "R">>
W_DELE == <<"D", "E", "L", "E">>
W_RSET == <<"R", "S", "E", "T">>

\* ---- POP3: texts ------------------------------------------------------------------
\* bytes.decode("utf-8", errors="replace"): a byte that is no UTF-8 becomes U+FFFD
Utf8Replace(data) == [i \in 1..Len(data) |-> IF data[i] = Byte8 THEN "U+FFFD" ELSE data[i]]

Digits == <<"0", "1", "2", "3", "4", "5", "6", "7", "8", "9">>
IsDigit(ch) == \E i \in 1..Len(Digits) : Digits[i] = ch
DigitValue(ch) == (CHOOSE i \in 1..Len(Digits) : Digits[i] = ch) - 1

RECURSIVE DecimalValue(_)
DecimalValue(ds) ==
    IF Len(ds) = 0 THEN 0
    ELSE 10 * DecimalValue(SubSeq(ds, 1, Len(ds) - 1)) + DigitValue(ds[Len(ds)])

\* int(tok) for a token without whitespace or underscores: the number, or
\* None where int raises ValueError
ParseInt(tok) ==
    LET signed == Len(tok) > 0 /\ tok[1] \in {"-", "+"}
        ds == IF signed THEN Tail(tok) ELSE tok
    IN  IF Len(ds) = 0 \/ \E i \in 1..Len(ds) : ~IsDigit(ds[i]) THEN None
        ELSE IF signed /\ tok[1] = "-" THEN Some(0 - DecimalValue(ds))
        ELSE Some(DecimalValue(ds))

\* ---- POP3: Maildrop ------------------------------------------------------------------
Maildrop0 == [messages |-> <<>>, sizes |-> <<>>, uidls |-> <<>>, deleted |-> {}]

\* sorted(...): the names of S in ascending order
RECURSIVE Sorted(_)
Sorted(S) ==
    IF S = {} THEN <<>>
    ELSE LET m == CHOOSE f \in S : \A g \in S \ {f} : NameLess(f, g)
         IN  <<m>> \o Sorted(S \ {m})

\* st_size of a file of the directory
FileSize(box, f) == Len(FileText(box[f]))

\* _uidl_for: the digest of name, size and modification time, kept as the triple
UidlFor(box, f) == <<f, FileSize(box, f), box[f].mtime>>

\* Maildrop.refresh over the directory `box`
Refresh(md, box) ==
    LET messages == Sorted(DOMAIN box) IN
    [messages |-> messages,
     sizes |-> [i \in 1..Len(messages) |-> FileSize(box, messages[i])],
     uidls |-> [i \in 1..Len(messages) |-> UidlFor(box, messages[i])],
     deleted |-> {}]

\* every message counted, marked or not
CountFrom_All(md, i) == IF i > Len(md.messages) THEN 0 ELSE Len(md.messages) - i + 1

RECURSIVE CountFrom(_, _)
CountFrom(md, i) ==
    IF i > Len(md.messages) THEN 0
    ELSE (IF i \in md.deleted THEN 0 ELSE 1) + CountFrom(md, i + 1)

RECURSIVE OctetsFrom(_, _)
OctetsFrom(md, i) ==
    IF i > Len(md.messages) THEN 0
    ELSE (IF i \in md.deleted THEN 0 ELSE md.sizes[i]) + OctetsFrom(md, i + 1)

\* Maildrop.count_and_octets
CountAndOctets(md) == <<CountFrom(md, 1), OctetsFrom(md, 1)>>

RECURSIVE ListFrom(_, _)
ListFrom(md, i) ==
    IF i > Len(md.messages) THEN <<>>
    ELSE (IF i \in md.deleted THEN <<>> ELSE <<(<<i, md.sizes[i]>>)>>) \o ListFrom(md, i + 1)

\* Maildrop.list_all
ListAll(md) == ListFrom(md, 1)

\* Maildrop._ensure_index does not raise
IndexOk(md, idx) == ~(idx < 1 \/ idx > Len(md.messages))

\* the mark not looked at
IndexError_RangeOnly(md, idx) ==
    IF ~IndexOk(md, idx) THEN Some("No such message") ELSE None

\* the IndexError the index checks of list_one, retr and dele raise, if any
IndexError(md, idx) ==
    IF ~IndexOk(md, idx) THEN Some("No such message")
    ELSE IF idx \in md.deleted THEN Some("Message already deleted")
    ELSE None

\* the message dropped from the lists, so that the later ones move up
Dele_Renumber(md, idx) ==
    [md EXCEPT !.messages = SubSeq(@, 1, idx - 1) \o SubSeq(@, idx + 1, Len(@)),
               !.sizes = SubSeq(@, 1, idx - 1) \o SubSeq(@, idx + 1, Len(@)),
               !.uidls = SubSeq(@, 1, idx - 1) \o SubSeq(@, idx + 1, Len(@))]

\* Maildrop.dele, past its checks
Dele(md, idx) == [md EXCEPT !.deleted = @ \cup {idx}]

\* the marks kept
Rset_Keep(md) == md

\* Maildrop.rset
Rset(md) == [md EXCEPT !.deleted = {}]

\* every file of the snapshot, marked or not
CommitFiles_All(md) == {md.messages[i] : i \in 1..Len(md.messages)}

\* the files Maildrop.commit unlinks
CommitFiles(md) == {md.messages[i] : i \in {j \in 1..Len(md.messages) : j \in md.deleted}}

\* nothing unlinked
Unlinked_Nothing(md, box) == box

\* the directory after Maildrop.commit's unlinks (a missing file is passed over)
Unlinked(md, box) == [f \in DOMAIN box \ CommitFiles(md) |-> box[f]]

\* ---- POP3: RETR's payload ------------------------------------------------------------
\* text.replace("\r\n", "\n").replace("\r", "\n")
RECURSIVE NormalizeNewlines(_)
NormalizeNewlines(text) ==
    IF Len(text) = 0 THEN <<>>
    ELSE IF Len(text) >= 2 /\ text[1] = CR /\ text[2] = LF
         THEN <<LF>> \o NormalizeNewlines(SubSeq(text, 3, Len(text)))
    ELSE IF text[1] = CR THEN <<LF>> \o NormalizeNewlines(Tail(text))
    ELSE <<text[1]>> \o NormalizeNewlines(Tail(text))

\* str.split("\n")
RECURSIVE SplitLF(_)
SplitLF(text) ==
    LET cuts == {i \in 1..Len(text) : text[i] = LF} IN
    IF cuts = {} THEN <<text>>
    ELSE <<SubSeq(text, 1, SetMin(cuts) - 1)>>
             \o SplitLF(SubSeq(text, SetMin(cuts) + 1, Len(text)))

\* no dot added
Stuff_Never(line) == line

\* dot-stuffing of one line
Stuff(line) == IF StartsWith(line, <<".">>) THEN <<".">> \o line ELSE line

\* CRLF.join(out_lines)
RECURSIVE JoinCRLF(_)
JoinCRLF(lines) ==
    IF Len(lines) = 0 THEN <<>>
    ELSE IF Len(lines) = 1 THEN lines[1]
    ELSE lines[1] \o CRLF \o JoinCRLF(Tail(lines))

\* the lines sent as they are stored
OutLines_Plain(text) == SplitLF(NormalizeNewlines(text))

\* the lines Maildrop.retr sends for a file's text, before the end marker
OutLines(text) ==
    LET lines == SplitLF(NormalizeNewlines(text)) IN
    [i \in 1..Len(lines) |-> Stuff(lines[i])]

\* Maildrop.retr's payload for a file's text
RetrPayload(text) == JoinCRLF(OutLines(text)) \o CRLF \o <<".">> \o CRLF

\* ---- POP3: POP3Session ------------------------------------------------------------------
PopSession0 == [pc |-> "run", state |-> "AUTH", user |-> None, maildrop |-> Maildrop0]

Reply(status, text, lines, payload) ==
    [status |-> status, text |-> text, lines |-> lines, payload |-> payload]

\* _send_ok and _send_err
SendOk(text) == Reply("+OK", text, <<>>, <<>>)
SendErr(text) == Reply("-ERR", text, <<>>, <<>>)

\* what one command leaves: the session, the directory and the replies written
Outcome(s, box, replies) == [s |-> s, box |-> box, replies |-> replies]

\* the password not compared
CredentialsMatch_UserOnly(user, pw) == user = Some(USERNAME)

\* the credentials are the configured pair
CredentialsMatch(user, pw) == user = Some(USERNAME) /\ pw = PASSWORD

\* _cmd_user
CmdUser(s, args, box) ==
    IF Len(args) # 1 THEN Outcome(s, box, <<SendErr("Syntax: USER <name>")>>)
    ELSE Outcome([s EXCEPT !.user = Some(args[1])], box,
                 <<SendOk("User accepted, send PASS")>>)

\* _cmd_pass
CmdPass(s, args, box) ==
    IF s.user = None THEN Outcome(s, box, <<SendErr("Send USER first")>>)
    ELSE IF Len(args) # 1 THEN Outcome(s, box, <<SendErr("Syntax: PASS <password>")>>)
    ELSE IF CredentialsMatch(s.user, args[1])
         THEN LET md == Refresh(s.maildrop, box) IN
              Outcome([s EXCEPT !.maildrop = md, !.state = "TRANSACTION"], box,
                      <<SendOk(<<"Mailbox locked and ready">> \o CountAndOctets(md))>>)
    ELSE Outcome(s, box, <<SendErr("Authentication failed")>>)

\* _cmd_stat
CmdStat(s, box) == Outcome(s, box, <<SendOk(CountAndOctets(s.maildrop))>>)

\* _cmd_list
CmdList(s, args, box) ==
    IF Len(args) = 0
    THEN LET all_msgs == ListAll(s.maildrop) IN
         Outcome(s, box, <<Reply("+OK", <<Len(all_msgs), "messages">>, all_msgs, <<".">>)>>)
    ELSE IF Len(args) = 1
    THEN LET idx == ParseInt(args[1]) IN
         IF idx = None THEN Outcome(s, box, <<SendErr("Syntax: LIST [msg]")>>)
         ELSE IF IndexError(s.maildrop, idx[1]) # None
              THEN Outcome(s, box, <<SendErr(IndexError(s.maildrop, idx[1])[1])>>)
         ELSE Outcome(s, box, <<SendOk(<<idx[1], s.maildrop.sizes[idx[1]]>>)>>)
    ELSE Outcome(s, box, <<SendErr("Syntax: LIST [msg]")>>)

\* the +OK line written before the file is opened
RetrFailed_AfterOk(s, box) ==
    Outcome(s, box, <<SendOk("octets"), SendErr("No such file or directory")>>)

\* Maildrop.retr's open() raises FileNotFoundError, which run() answers
RetrFailed(s, box) == Outcome(s, box, <<SendErr("No such file or directory")>>)

\* _cmd_retr
CmdRetr(s, args, box) ==
    IF Len(args) # 1 THEN Outcome(s, box, <<SendErr("Syntax: RETR <msg>")>>)
    ELSE LET idx == ParseInt(args[1]) IN
         IF idx = None THEN Outcome(s, box, <<SendErr("Syntax: RETR <msg>")>>)
         ELSE IF IndexError(s.maildrop, idx[1]) # None
              THEN Outcome(s, box, <<SendErr(IndexError(s.maildrop, idx[1])[1])>>)
         ELSE IF s.maildrop.messages[idx[1]] \notin DOMAIN box
              THEN RetrFailed(s, box)
         ELSE Outcome(s, box,
                  <<Reply("+OK", <<s.maildrop.sizes[idx[1]], "octets">>, <<>>,
                          RetrPayload(FileText(box[s.maildrop.messages[idx[1]]])))>>)

\* _cmd_dele
CmdDele(s, args, box) ==
    IF Len(args) # 1 THEN Outcome(s, box, <<SendErr("Syntax: DELE <msg>")>>)
    ELSE LET idx == ParseInt(args[1]) IN
         IF idx = None THEN Outcome(s, box, <<SendErr("Syntax: DELE <msg>")>>)
         ELSE IF IndexError(s.maildrop, idx[1]) # None
              THEN Outcome(s, box, <<SendErr(IndexError(s.maildrop, idx[1])[1])>>)
         ELSE Outcome([s EXCEPT !.maildrop = Dele(@, idx[1])], box,
                      <<SendOk(<<"Message deleted", idx[1]>>)>>)

\* RSET in run()
CmdRset(s, box) == Outcome([s EXCEPT !.maildrop = Rset(@)], box, <<SendOk("Reset")>>)

\* QUIT in run(), TRANSACTION state: Maildrop.commit, then the reply, then the end
CmdQuitCommit(s, box) ==
    LET left == Unlinked(s.maildrop, box) IN
    Outcome([s EXCEPT !.maildrop = Refresh(@, left), !.pc = "closed"], left,
            <<SendOk("Bye")>>)

\* the body of run()'s loop for a line with at least one token
PopCommand(s, toks, box) ==
    LET cmd_u == Upper(toks[1])
        args == Tail(toks)
    IN  IF s.state = "AUTH" THEN
            IF cmd_u = W_USER THEN CmdUser(s, args, box)
            ELSE IF cmd_u = W_PASS THEN CmdPass(s, args, box)
            ELSE IF cmd_u = W_QUIT
                 THEN Outcome([s EXCEPT !.pc = "closed"], box, <<SendOk("Bye")>>)
            ELSE Outcome(s, box, <<SendErr("Authenticate first (USER/PASS)")>>)
        ELSE IF s.state = "TRANSACTION" THEN
            IF cmd_u = W_STAT THEN CmdStat(s, box)
            ELSE IF cmd_u = W_LIST THEN CmdList(s, args, box)
            ELSE IF cmd_u = W_RETR THEN CmdRetr(s, args, box)
            ELSE IF cmd_u = W_DELE THEN CmdDele(s, args, box)
            ELSE IF cmd_u = W_NOOP THEN Outcome(s, box, <<SendOk("OK")>>)
            ELSE IF cmd_u = W_RSET THEN CmdRset(s, box)
            ELSE IF cmd_u = W_QUIT THEN CmdQuitCommit(s, box)
            ELSE Outcome(s, box, <<SendErr("Unknown or unsupported command")>>)
        ELSE Outcome(s, box, <<SendErr("Bad state")>>)

\* what STAT and an argument-less LIST show of a maildrop
View(md) == [stat |-> CountAndOctets(md), list |-> ListAll(md)]

PopExchange(p, ev, line, replies) ==
    [Exchange(p, ev, pop[p].state, line, replies) EXCEPT !.before = View(pop[p].maildrop)]

\* ---- POP3: actions ---------------------------------------------------------------------
\* run() reads one line
PopReadLine(p, data) ==
    /\ pop[p].pc = "run"
    /\ \E toks \in {Split(RStripCRLF(Utf8Replace(data)))} :
       IF toks = <<>>
       THEN \* `cmd, *args = raw.split()` raises ValueError outside the try: run() ends
            /\ pop' = [pop EXCEPT ![p].pc = "closed"]
            /\ last' = PopExchange(p, "line", data, <<>>)
            /\ UNCHANGED mailbox
       ELSE \E r \in {PopCommand(pop[p], toks, mailbox)} :
            /\ pop' = [pop EXCEPT ![p] = r.s]
            /\ mailbox' = r.box
            /\ last' = PopExchange(p, "line", data, r.replies)
    /\ UNCHANGED <<clock, issued, smtp>>

\* readline() returns b"" or raises: run() ends without a commit
PopEof(p) ==
    /\ pop[p].pc = "run"
    /\ pop' = [pop EXCEPT ![p].pc = "closed"]
    /\ last' = PopExchange(p, "eof", <<>>, <<>>)
    /\ UNCHANGED <<mailbox, clock, issued, smtp>>

\* ---- what the peers send -----------------------------------------------------------------
Wire(text) == text \o CRLF

L_HELO_a == Wire(<<"H", "E", "L", "O", " ", "a">>)
L_HELO == Wire(<<"H", "E", "L", "O">>)
L_MAIL_x == Wire(<<"M", "A", "I", "L", " ", "F", "R", "O", "M", ":", "<", "x", ">">>)
L_mail_y == Wire(<<"m", "a", "i", "l", " ", "f", "r", "o", "m", ":", " ", "<", "y", ">">>)
L_MAIL_bad == Wire(<<"M", "A", "I", "L", " ", "F", "R", "O", "M", ":", "x">>)
L_RCPT_z == Wire(<<"R", "C", "P", "T", " ", "T", "O", ":", "<", "z", ">">>)
L_RCPT_w == Wire(<<"R", "C", "P", "T", " ", "T", "O", ":", "<", "w", ">">>)
L_RCPT_bad == Wire(<<"R", "C", "P", "T", " ", "T", "O", ":", "<", ">">>)
L_DATA == Wire(<<"D", "A", "T", "A">>)
L_QUIT == Wire(<<"Q", "U", "I", "T">>)
L_NOOP == Wire(<<"N", "O", "O", "P">>)
L_EMPTY == Wire(<<>>)
L_BLANK == Wire(<<" ">>)
L_DOT == Wire(<<".">>)
L_DOTDOT == Wire(<<".", ".">>)
L_DOTDOT_a == Wire(<<".", ".", "a">>)
L_DOT_a == Wire(<<".", "a">>)
L_a == Wire(<<"a">>)
L_USER_user == Wire(<<"U", "S", "E", "R", " ", "u", "s", "e", "r">>)
L_USER_x == Wire(<<"U", "S", "E", "R", " ", "x">>)
L_USER == Wire(<<"U", "S", "E", "R">>)
L_PASS_pass == Wire(<<"P", "A", "S", "S", " ", "p", "a", "s", "s">>)
L_PASS_x == Wire(<<"P", "A", "S", "S", " ", "x">>)
L_PASS == Wire(<<"P", "A", "S", "S">>)
L_STAT == Wire(<<"S", "T", "A", "T">>)
L_LIST == Wire(<<"L", "I", "S", "T">>)
L_LIST_1 == Wire(<<"L", "I", "S", "T", " ", "1">>)
L_LIST_x == Wire(<<"L", "I", "S", "T", " ", "x">>)
L_LIST_1_2 == Wire(<<"L", "I", "S", "T", " ", "1", " ", "2">>)
L_RETR_1 == Wire(<<"R", "E", "T", "R", " ", "1">>)
L_RETR_2 == Wire(<<"R", "E", "T", "R", " ", "2">>)
L_RETR == Wire(<<"R", "E", "T", "R">>)
L_DELE_1 == Wire(<<"D", "E", "L", "E", " ", "1">>)
L_DELE_2 == Wire(<<"D", "E", "L", "E", " ", "2">>)
L_DELE_0 == Wire(<<"D", "E", "L", "E", " ", "0">>)
L_DELE_x == Wire(<<"D", "E", "L", "E", " ", "x">>)
L_DELE == Wire(<<"D", "E", "L", "E">>)
L_RSET == Wire(<<"R", "S", "E", "T">>)
L_quit == Wire(<<"q", "u", "i", "t">>)
L_8BIT == Wire(<<Byte8>>)

SmtpCommandLines ==
    {L_HELO_a, L_HELO, L_MAIL_x, L_MAIL_bad, L_RCPT_z, L_RCPT_bad,
     L_DATA, L_QUIT, L_EMPTY, L_8BIT}

SmtpDataLines == {L_DOT, L_a, L_8BIT}

PopLines ==
    {L_USER_user, L_USER_x, L_USER, L_PASS_pass, L_PASS_x, L_STAT, L_LIST, L_LIST_1,
     L_RETR_1, L_DELE_1, L_DELE_2, L_DELE_0, L_DELE_x, L_RSET, L_NOOP, L_QUIT, L_EMPTY}

PopCoreLines == {L_USER_user, L_PASS_pass, L_RETR_1, L_DELE_1, L_DELE_2, L_RSET, L_QUIT}

\* the bodies of the messages other SMTP connections deliver
DeliveredBodies == {<<>>, <<"a">>}

\* ---- the system ---------------------------------------------------------------------------
Init ==
    /\ mailbox = <<>>
    /\ clock = 0
    /\ issued = {}
    /\ smtp = [c \in SmtpIds |-> SmtpState0]
    /\ pop = [p \in PopIds |-> PopSession0]
    /\ last = Exchange("none", "init", "none", <<>>, <<>>)

\* the steps of the SMTP connections C, which send the lines Cmds and Datas
SmtpNext(C, Cmds, Datas) ==
    \/ \E c \in C, data \in Cmds : SmtpReadCommand(c, data)
    \/ \E c \in C, data \in Datas : SmtpReadData(c, data)
    \/ \E c \in C : SmtpEof(c)
    \/ \E c \in C : SmtpReadError(c)

\* the steps of the POP3 connections P, which send the lines Lines
PopNext(P, Lines) ==
    \/ \E p \in P, data \in Lines : PopReadLine(p, data)
    \/ \E p \in P : PopEof(p)

\* some SMTP connection completes a DATA phase: handle_client calls save_email
Deliver ==
    /\ \E body \in DeliveredBodies : SaveEmail(Some(<<"x">>), <<(<<"z">>)>>, body)
    /\ last' = Exchange("smtp", "save", "data", <<>>, <<250>>)
    /\ UNCHANGED <<clock, smtp, pop>>

\* one connection to the SMTP server alone
SmtpOnlyNext == SmtpNext({"s1"}, SmtpCommandLines, SmtpDataLines)

SpecSmtp == Init /\ [][SmtpOnlyNext]_vars

\* one connection to the POP3 server, while mail is delivered
PopOnlyNext == PopNext({"p1"}, PopLines) \/ Deliver \/ Tick

SpecPop == Init /\ [][PopOnlyNext]_vars

\* two connections to the POP3 server, while mail is delivered
Pop2Next == PopNext(PopIds, PopCoreLines) \/ Deliver

SpecPop2 == Init /\ [][Pop2Next]_vars

SmtpCoreLines == {L_HELO_a, L_MAIL_x, L_RCPT_z, L_DATA, L_QUIT}
SmtpCoreData == {L_DOT}

\* the two servers over one mailbox directory
Next ==
    \/ SmtpNext({"s1"}, SmtpCoreLines, SmtpCoreData)
    \/ PopNext({"p1"}, PopCoreLines)

Spec == Init /\ [][Next]_vars

\* ---- the inputs by what they ask for ---------------------------------------------------------
MailFromLines == {L_MAIL_x, L_mail_y, L_MAIL_bad}
RcptToLines == {L_RCPT_z, L_RCPT_w, L_RCPT_bad}
QuitLines == {L_QUIT, L_quit}
PassLines == {L_PASS_pass, L_PASS_x, L_PASS}
DeleLines == {L_DELE_1, L_DELE_2, L_DELE_0, L_DELE_x, L_DELE}
TransactionLines ==
    {L_STAT, L_LIST, L_LIST_1, L_LIST_x, L_LIST_1_2, L_RETR_1, L_RETR_2, L_RETR,
     L_DELE_1, L_DELE_2, L_DELE_0, L_DELE_x, L_DELE, L_RSET, L_NOOP}

\* the last event was connection c reading a line in its command loop
SmtpAnswered(c) == last.sess = c /\ last.ev = "line" /\ last.was = "cmd"

\* ---- C1 ------------------------------------------------------------------------------------------
\* C1: MAIL FROM is answered 503 while no HELO identity is recorded, RCPT TO is
\* answered 503 while no sender is set, DATA is answered 503 (never 354) while the
\* recipient list is empty; and every file of the mailbox carries a sender and at
\* least one recipient.
C1_Sequencing ==
    /\ \A c \in SmtpIds :
          SmtpAnswered(c) =>
             /\ (last.line \in MailFromLines /\ smtp[c].helo = None
                    => last.replies = <<503>>)
             /\ (last.line \in RcptToLines /\ smtp[c].mail_from = None
                    => last.replies = <<503>>)
             /\ (last.line = L_DATA /\ last.replies # <<503>>
                    => /\ last.replies = <<354>>
                       /\ Len(smtp[c].rcpt_to) >= 1
                       /\ smtp[c].mail_from # None)
    /\ \A f \in DOMAIN mailbox :
          /\ mailbox[f].mail_from # None
          /\ Len(mailbox[f].mail_from[1]) >= 1
          /\ Len(mailbox[f].rcpt_to) >= 1

\* a DATA was rejected for want of recipients after a message had been stored
C1_Witness ==
    /\ SmtpAnswered("s1")
    /\ last.line = L_DATA
    /\ last.replies = <<503>>
    /\ smtp["s1"].rcpt_to = <<>>
    /\ DOMAIN mailbox # {}

\* ---- C2 ------------------------------------------------------------------------------------------
\* the last event was connection c completing a DATA phase on the lone dot
DataCompleted(c) ==
    /\ last.sess = c /\ last.ev = "line" /\ last.was = "data"
    /\ last.replies = <<250>>

\* C2: right after a DATA phase has ended and the message is stored, a RCPT TO or
\* a DATA is answered 503.
C2_ResetAfterData ==
    [][\A c \in SmtpIds :
          (DataCompleted(c) /\ last'.sess = c /\ last'.ev = "line"
              /\ last'.line \in RcptToLines \cup {L_DATA})
          => last'.replies = <<503>>]_vars

\* ---- C3 ------------------------------------------------------------------------------------------
\* C3: end-of-input during a DATA phase creates no file in the mailbox.
C3_NoSaveOnEof ==
    [][\A c \in SmtpIds :
          (smtp[c].pc = "data" /\ last'.sess = c /\ last'.ev = "eof")
          => DOMAIN mailbox' = DOMAIN mailbox]_vars

\* ---- POP3: what the claims speak of -----------------------------------------------------
\* the files connection p has marked deleted
Marked(p) ==
    {pop[p].maildrop.messages[i] :
        i \in {j \in 1..Len(pop[p].maildrop.messages) : j \in pop[p].maildrop.deleted}}

\* the files of connection p's snapshot
Snapshot(p) == {pop[p].maildrop.messages[i] : i \in 1..Len(pop[p].maildrop.messages)}

\* this step is connection p reading a QUIT in TRANSACTION state
QuitsFromTransaction(p) ==
    /\ pop[p].pc = "run" /\ pop[p].state = "TRANSACTION"
    /\ last'.sess = p /\ last'.ev = "line" /\ last'.line \in QuitLines

\* this step is connection p reading a PASS that takes it to TRANSACTION state
Authenticates(p) ==
    /\ pop[p].pc = "run" /\ pop[p].state = "AUTH" /\ pop'[p].state = "TRANSACTION"
    /\ last'.sess = p /\ last'.ev = "line" /\ last'.line \in PassLines

\* the last event was connection p reading a line in state `was`
PopAnswered(p, was) == last.sess = p /\ last.ev = "line" /\ last.was = was

\* ---- C4 ------------------------------------------------------------------------------------------
\* C4: a file leaves the mailbox only in a step that is a POP3 connection's QUIT
\* in TRANSACTION state, and only if the file is in that connection's snapshot and
\* marked deleted there.
C4_RemovedOnlyByCommit ==
    [][\A f \in DOMAIN mailbox :
          f \notin DOMAIN mailbox'
          => \E p \in PopIds : QuitsFromTransaction(p) /\ f \in Marked(p)]_vars

\* a commit has removed the one file of its snapshot and left the file that was
\* delivered after the snapshot was taken
C4_Witness ==
    /\ PopAnswered("p1", "TRANSACTION") /\ last.line \in QuitLines
    /\ pop["p2"].state = "AUTH"
    /\ last.before.list = <<>>
    /\ Cardinality(issued) = 2
    /\ Cardinality(DOMAIN mailbox) = 1
    /\ smtp["s1"].data # None

\* ---- C5 ------------------------------------------------------------------------------------------
\* C5, as claimed: after a QUIT from TRANSACTION with N messages in the snapshot
\* and k of them marked deleted, the refreshed maildrop holds exactly N - k
\* messages and none of the k files is left in the mailbox.
C5_CountAfterCommit ==
    [][\A p \in PopIds :
          QuitsFromTransaction(p)
          => /\ Len(pop'[p].maildrop.messages)
                   = Len(pop[p].maildrop.messages) - Cardinality(pop[p].maildrop.deleted)
             /\ Marked(p) \cap DOMAIN mailbox' = {}]_vars

\* C5, amended: after a QUIT from TRANSACTION none of the k marked files is left
\* in the mailbox, the refreshed maildrop holds exactly the files that were there
\* at the QUIT other than those k, without marks, and that is N - k messages when
\* the mailbox at the QUIT held exactly the snapshot's files.
C5_CommitRemovesMarked ==
    [][\A p \in PopIds :
          QuitsFromTransaction(p)
          => /\ Marked(p) \cap DOMAIN mailbox' = {}
             /\ DOMAIN mailbox' = DOMAIN mailbox \ Marked(p)
             /\ {pop'[p].maildrop.messages[i] : i \in 1..Len(pop'[p].maildrop.messages)}
                   = DOMAIN mailbox \ Marked(p)
             /\ Len(pop'[p].maildrop.messages) = Cardinality(DOMAIN mailbox \ Marked(p))
             /\ pop'[p].maildrop.deleted = {}
             /\ (DOMAIN mailbox = Snapshot(p)
                   => Len(pop'[p].maildrop.messages)
                         = Len(pop[p].maildrop.messages)
                              - Cardinality(pop[p].maildrop.deleted))]_vars

\* the commit of one marked message out of two has left the other one, no other
\* connection having committed anything
C5_Witness ==
    \E p \in PopIds :
        /\ PopAnswered(p, "TRANSACTION") /\ last.line \in QuitLines
        /\ \A q \in PopIds \ {p} : pop[q].state = "AUTH"
        /\ Len(last.before.list) = 1
        /\ Len(pop[p].maildrop.messages) = 1
        /\ Cardinality(issued) = 2
        /\ Cardinality(DOMAIN mailbox) = 1

\* ---- C6 ------------------------------------------------------------------------------------------
\* the exchange ex is a DELE that was answered +OK
DeleAccepted(ex) ==
    /\ ex.ev = "line" /\ ex.was = "TRANSACTION" /\ ex.line \in DeleLines
    /\ ex.replies # <<>> /\ ex.replies[1].status = "+OK"

\* this step is connection p's RSET, read right after its accepted DELE
RsetAfterDele(p) ==
    /\ last.sess = p /\ DeleAccepted(last)
    /\ last'.sess = p /\ last'.ev = "line" /\ last'.line = L_RSET

\* C6, as claimed: after an accepted DELE n followed by RSET, STAT's count and
\* octets and LIST's output are what they were right before that DELE n.
C6_RsetUndoesDele ==
    [][\A p \in PopIds :
          RsetAfterDele(p) => View(pop'[p].maildrop) = last.before]_vars

\* C6, amended: that holds when no message was marked deleted right before the
\* DELE n; in every case RSET leaves the count, octets and LIST of the whole
\* snapshot.
C6_RsetRestoresSnapshot ==
    [][\A p \in PopIds :
          RsetAfterDele(p)
          => /\ (Len(last.before.list) = Len(pop[p].maildrop.messages)
                    => View(pop'[p].maildrop) = last.before)
             /\ View(pop'[p].maildrop).stat[1] = Len(pop[p].maildrop.messages)
             /\ View(pop'[p].maildrop)
                   = View([pop[p].maildrop EXCEPT !.deleted = {}])
             /\ pop'[p].maildrop.messages = pop[p].maildrop.messages
             /\ pop'[p].maildrop.sizes = pop[p].maildrop.sizes]_vars

\* an RSET has brought back a single marked message of a snapshot of two
C6_Witness ==
    /\ PopAnswered("p1", "TRANSACTION") /\ last.line = L_RSET
    /\ last.before.stat[1] = 1
    /\ View(pop["p1"].maildrop).stat[1] = 2
    /\ Len(View(pop["p1"].maildrop).list) = 2

\* ---- C7 ------------------------------------------------------------------------------------------
RECURSIVE SumSizes(_)
SumSizes(list) == IF Len(list) = 0 THEN 0 ELSE list[1][2] + SumSizes(Tail(list))

\* C7: in every maildrop the count of count_and_octets is the number of entries of
\* list_all, the octets are the sum of the sizes list_all gives, list_all gives
\* exactly the messages not marked deleted, each with its size; and the count in
\* the header of an argument-less LIST is the number of lines listed.
C7_StatAgreesWithList ==
    /\ \A p \in PopIds :
          LET md == pop[p].maildrop IN
          /\ CountAndOctets(md)[1] = Len(ListAll(md))
          /\ CountAndOctets(md)[2] = SumSizes(ListAll(md))
          /\ {ListAll(md)[i][1] : i \in 1..Len(ListAll(md))}
                = (1..Len(md.messages)) \ md.deleted
          /\ \A i \in 1..Len(ListAll(md)) :
                ListAll(md)[i][2] = md.sizes[ListAll(md)[i][1]]
          /\ CountAndOctets(md)[1] = Len(md.messages) - Cardinality(md.deleted)
    /\ \A p \in PopIds :
          (PopAnswered(p, "TRANSACTION") /\ last.line = L_LIST)
          => /\ last.replies[1].status = "+OK"
             /\ last.replies[1].text[1] = Len(last.replies[1].lines)
             /\ last.replies[1].lines = ListAll(pop[p].maildrop)
    /\ \A p \in PopIds :
          (PopAnswered(p, "TRANSACTION") /\ last.line = L_STAT)
          => last.replies[1].text = CountAndOctets(pop[p].maildrop)

\* an argument-less LIST was answered with one of two messages marked deleted
C7_Witness ==
    /\ PopAnswered("p1", "TRANSACTION") /\ last.line = L_LIST
    /\ Len(pop["p1"].maildrop.messages) = 2
    /\ Cardinality(pop["p1"].maildrop.deleted) = 1
    /\ Len(last.replies[1].lines) = 1

\* ---- C8 ------------------------------------------------------------------------------------------
\* the numbering of connection p's maildrop: which file and size each number has
Numbering(p) ==
    [messages |-> pop[p].maildrop.messages, sizes |-> pop[p].maildrop.sizes,
     uidls |-> pop[p].maildrop.uidls]

\* the numbers of connection p's maildrop are 1..N, one file and one size each
Numbered(p) ==
    /\ Len(pop[p].maildrop.sizes) = Len(pop[p].maildrop.messages)
    /\ pop[p].maildrop.deleted \subseteq 1..Len(pop[p].maildrop.messages)
    /\ \A i, j \in 1..Len(pop[p].maildrop.messages) :
          pop[p].maildrop.messages[i] = pop[p].maildrop.messages[j] => i = j

\* C8: the numbers of a maildrop are 1..N, each with one file and one size, and
\* which file and size a number has changes only in the connection's own accepted
\* PASS or its own QUIT in TRANSACTION state: no other command of the connection,
\* no delivery and no other connection's commit changes it.
C8_NumberingStable ==
    [][\A p \in PopIds :
          /\ Numbered(p)'
          /\ (Numbering(p)' # Numbering(p)
                 => Authenticates(p) \/ QuitsFromTransaction(p))]_vars

\* a connection keeps both numbers of its snapshot, one of them marked, although
\* one of the two files has meanwhile been removed by the other connection
C8_Witness ==
    /\ pop["p1"].pc = "run" /\ pop["p1"].state = "TRANSACTION"
    /\ Len(pop["p1"].maildrop.messages) = 2
    /\ pop["p1"].maildrop.deleted = {2}
    /\ pop["p2"].pc = "closed" /\ pop["p2"].state = "TRANSACTION"
    /\ Cardinality(DOMAIN mailbox) = 1
    /\ PopAnswered("p1", "TRANSACTION") /\ last.line = L_DELE_2

\* ---- C9 ------------------------------------------------------------------------------------------
\* this step is connection p reading the line `data` in AUTHORIZATION state
ReadsInAuth(p) ==
    /\ pop[p].pc = "run" /\ pop[p].state = "AUTH"
    /\ last'.sess = p /\ last'.ev = "line"

\* C9: a connection enters TRANSACTION only on reading PASS with the configured
\* password after a USER with the configured name; a PASS without a USER before it
\* or with another pair is answered -ERR and leaves the connection in
\* AUTHORIZATION; in AUTHORIZATION STAT, LIST, RETR, DELE, RSET and NOOP are
\* answered -ERR and leave the connection, its maildrop and the mailbox as they were.
C9_AuthorizationGate ==
    [][\A p \in PopIds :
          /\ (pop[p].state # "TRANSACTION" /\ pop'[p].state = "TRANSACTION"
                 => /\ ReadsInAuth(p)
                    /\ last'.line = L_PASS_pass
                    /\ pop[p].user = Some(USERNAME)
                    /\ last'.replies[1].status = "+OK")
          /\ (ReadsInAuth(p) /\ last'.line \in PassLines
                 /\ ~(last'.line = L_PASS_pass /\ pop[p].user = Some(USERNAME))
                 => /\ Len(last'.replies) = 1
                    /\ last'.replies[1].status = "-ERR"
                    /\ pop'[p] = pop[p])
          /\ (ReadsInAuth(p) /\ last'.line \in TransactionLines
                 => /\ Len(last'.replies) = 1
                    /\ last'.replies[1].status = "-ERR"
                    /\ pop'[p] = pop[p]
                    /\ pop[p].maildrop = Maildrop0
                    /\ mailbox' = mailbox)]_vars

\* a STAT was refused in AUTHORIZATION, the configured name given and mail waiting
C9_Witness ==
    /\ PopAnswered("p1", "AUTH") /\ last.line = L_STAT
    /\ last.replies[1].status = "-ERR"
    /\ pop["p1"].user = Some(USERNAME)
    /\ pop["p1"].state = "AUTH"
    /\ DOMAIN mailbox # {}

\* ---- C10 -----------------------------------------------------------------------------------------
\* C10: every line a connection reads in its command loop is answered with exactly
\* one reply, and the connection has ended after it exactly if the line was QUIT.
C10_EndsOnlyOnQuit ==
    /\ \A c \in SmtpIds :
          SmtpAnswered(c)
          => /\ Len(last.replies) = 1
             /\ (smtp[c].pc = "closed" <=> last.line = L_QUIT)
    /\ \A p \in PopIds :
          (last.sess = p /\ last.ev = "line")
          => /\ Len(last.replies) = 1
             /\ (pop[p].pc = "closed" <=> last.line \in QuitLines)

\* ---- C11 -----------------------------------------------------------------------------------------
HeloLines == {L_HELO_a, L_HELO}
ValidMailFromLines == {L_MAIL_x, L_mail_y}

\* C11: every HELO, with or without a domain, is answered 250, and a well-formed
\* MAIL FROM:<address> read right after a HELO of the session is answered 250,
\* not 503.
C11_HeloEnablesMail ==
    [][\A c \in SmtpIds :
          /\ (smtp[c].pc = "cmd" /\ last'.sess = c /\ last'.ev = "line"
                 /\ last'.line \in HeloLines
                 => last'.replies = <<250>>)
          /\ (SmtpAnswered(c) /\ last.line \in HeloLines /\ last.replies = <<250>>
                 /\ last'.sess = c /\ last'.ev = "line"
                 /\ last'.line \in ValidMailFromLines
                 => last'.replies = <<250>>)]_vars

\* ---- a stored message and its retrieval -----------------------------------------------------
MaxLen == 2

\* the characters of the lines the DATA phase is sent
StoredChars == {".", "a", CR}

\* the texts of n characters
RECURSIVE TextsOfLen(_)
TextsOfLen(n) ==
    IF n = 0 THEN {<<>>}
    ELSE {<<ch>> \o t : ch \in StoredChars, t \in TextsOfLen(n - 1)}

\* the lines the DATA phase can append to a body: rstrip("\r\n") leaves no CR at
\* the end, and each is the un-stuffed form of some line other than the lone dot
StoredLines ==
    {t \in UNION {TextsOfLen(n) : n \in 0..MaxLen} : Len(t) = 0 \/ t[Len(t)] # CR}

\* the sequences of n such lines
RECURSIVE LineSeqs(_)
LineSeqs(n) ==
    IF n = 0 THEN {<<>>}
    ELSE {<<l>> \o ls : l \in StoredLines, ls \in LineSeqs(n - 1)}

\* "\n".join(lines) for the lines of a DATA phase
StoredBodies == {JoinLF(ls) : ls \in UNION {LineSeqs(n) : n \in 0..MaxLines}}

\* the mailbox after one delivery: save_email has written its first file
InitRetr ==
    /\ \E body \in StoredBodies :
          mailbox = ([ts |-> 0, id |-> 1] :>
                        [mail_from |-> Some(<<"x">>), rcpt_to |-> <<(<<"z">>)>>,
                         body |-> body, mtime |-> 0])
    /\ clock = 0
    /\ issued = {1}
    /\ smtp = [c \in SmtpIds |-> SmtpState0]
    /\ pop = [p \in PopIds |-> PopSession0]
    /\ last = Exchange("smtp", "save", "data", <<>>, <<250>>)

RetrLines == {L_USER_user, L_PASS_pass, L_RETR_1}

\* one connection to the POP3 server retrieves the message
RetrNext == PopNext({"p1"}, RetrLines)

SpecRetr == InitRetr /\ [][RetrNext]_vars

\* the lines a client reads in a payload: the texts between the CRLFs
RECURSIVE WireLines(_)
WireLines(payload) ==
    LET cuts == {i \in 1..(Len(payload) - 1) : payload[i] = CR /\ payload[i + 1] = LF} IN
    IF cuts = {} THEN <<payload>>
    ELSE <<SubSeq(payload, 1, SetMin(cuts) - 1)>>
             \o WireLines(SubSeq(payload, SetMin(cuts) + 2, Len(payload)))

\* the last event was connection p's RETR 1, answered +OK
RetrAnswered(p) ==
    /\ PopAnswered(p, "TRANSACTION") /\ last.line = L_RETR_1
    /\ last.replies[1].status = "+OK"

\* the lines of the file RETR 1 has just read for connection p
RetrStored(p) == SplitLF(NormalizeNewlines(FileText(mailbox[pop[p].maildrop.messages[1]])))

\* the lines RETR 1 has just sent to connection p, end marker included
RetrSent(p) == WireLines(last.replies[1].payload)

\* ---- C12 -----------------------------------------------------------------------------------------
\* C12, as claimed: for every line of a retrieved file that begins with a dot,
\* un-stuffing the line RETR sent for it gives the line back, and stuffing the
\* un-stuffed line gives the line back.
C12_StuffUnstuffInverse ==
    \A p \in PopIds :
        RetrAnswered(p)
        => /\ Len(RetrSent(p)) = Len(RetrStored(p)) + 2
           /\ \A i \in 1..Len(RetrStored(p)) :
                 StartsWith(RetrStored(p)[i], <<".">>)
                 => /\ Unstuff(RetrSent(p)[i]) = RetrStored(p)[i]
                    /\ Stuff(Unstuff(RetrStored(p)[i])) = RetrStored(p)[i]

\* C12, amended: un-stuffing the line RETR sent gives the stored line back for
\* every line; stuffing the un-stuffed line gives the line back when the line
\* begins with two dots or with no dot, and when it begins with exactly one dot
\* it gives the line with one more dot in front.
C12_UnstuffUndoesStuff ==
    \A p \in PopIds :
        RetrAnswered(p)
        => /\ Len(RetrSent(p)) = Len(RetrStored(p)) + 2
           /\ \A i \in 1..Len(RetrStored(p)) :
                 LET line == RetrStored(p)[i] IN
                 /\ Unstuff(RetrSent(p)[i]) = line
                 /\ Unstuff(Stuff(line)) = line
                 /\ (StartsWith(line, <<".", ".">>) \/ ~StartsWith(line, <<".">>)
                        => Stuff(Unstuff(line)) = line)
                 /\ (StartsWith(line, <<".">>) /\ ~StartsWith(line, <<".", ".">>)
                        => Stuff(Unstuff(line)) = <<".">> \o line)

\* a file with a body line of two dots has been retrieved, that line sent as
\* three dots
C12_Witness ==
    /\ RetrAnswered("p1")
    /\ \E i \in 1..Len(RetrStored("p1")) :
          /\ RetrStored("p1")[i] = <<".", ".">>
          /\ RetrSent("p1")[i] = <<".", ".", ".">>

\* ---- one DATA phase, line by line ---------------------------------------------------------
\* the lines a peer sends in the DATA phase: the lone dot, lines that begin with
\* dots, and lines that read like commands
DataLines == {L_DOT, L_DOTDOT_a, L_DOT_a, L_a, L_QUIT, L_mail_y, L_DATA}

\* the server after MaxFiles - 1 earlier deliveries, all collected since: the
\* connections in play are new and one more message can be stored
InitData ==
    /\ mailbox = <<>>
    /\ clock = 0
    /\ issued = 1..(MaxFiles - 1)
    /\ smtp = [c \in SmtpIds |-> SmtpState0]
    /\ pop = [p \in PopIds |-> PopSession0]
    /\ last = Exchange("none", "init", "none", <<>>, <<>>)

DataNext == SmtpNext({"s1"}, SmtpCoreLines, DataLines)

SpecData == InitData /\ [][DataNext]_vars

\* this step is connection c reading, in its DATA phase, a line that decodes and
\* is not the lone dot
ReadsBodyLine(c) ==
    /\ smtp[c].pc = "data"
    /\ last'.sess = c /\ last'.ev = "line"
    /\ AsciiDecodable(last'.line)
    /\ RStripCRLF(last'.line) # <<".">>

\* ---- C13 -----------------------------------------------------------------------------------------
\* C13: in the DATA phase every line other than the lone dot is appended to the
\* body lines: without its first character when it begins with two dots,
\* unchanged otherwise; so "." + L for a line L that begins with a dot is stored
\* as L.
C13_BodyLineStored ==
    [][\A c \in SmtpIds :
          ReadsBodyLine(c)
          => LET line == RStripCRLF(last'.line) IN
             /\ Len(smtp'[c].lines) = Len(smtp[c].lines) + 1
             /\ SubSeq(smtp'[c].lines, 1, Len(smtp[c].lines)) = smtp[c].lines
             /\ (Len(line) >= 2 /\ line[1] = "." /\ line[2] = "."
                    => smtp'[c].lines[Len(smtp'[c].lines)] = SubSeq(line, 2, Len(line)))
             /\ (~(Len(line) >= 2 /\ line[1] = "." /\ line[2] = ".")
                    => smtp'[c].lines[Len(smtp'[c].lines)] = line)
             /\ (last'.line = L_DOTDOT_a
                    => smtp'[c].lines[Len(smtp'[c].lines)] = <<".", "a">>)]_vars

\* ".a" was sent once as it is and once stuffed, and is stored twice as ".a"
C13_Witness ==
    /\ last.sess = "s1" /\ last.ev = "line" /\ last.was = "data"
    /\ last.line = L_DOTDOT_a
    /\ smtp["s1"].pc = "data"
    /\ smtp["s1"].lines = <<(<<".", "a">>), (<<".", "a">>)>>

\* ---- one POP3 connection and malformed or stale requests -----------------------------------
L_RETR_x == Wire(<<"R", "E", "T", "R", " ", "x">>)

PopErrLines ==
    {L_USER_user, L_PASS_pass, L_LIST_1, L_LIST_x, L_LIST_1_2, L_RETR_1, L_RETR_2,
     L_RETR, L_RETR_x, L_DELE_1, L_DELE_0, L_DELE_x, L_DELE, L_RSET, L_QUIT}

PopErrNext == PopNext({"p1"}, PopErrLines) \/ Deliver

SpecPopErr == Init /\ [][PopErrNext]_vars

\* the requests that name a message by number, and the number they name
NumberedLines == {L_LIST_1, L_RETR_1, L_RETR_2, L_DELE_1, L_DELE_2, L_DELE_0}
NumberOf(line) ==
    IF line \in {L_LIST_1, L_RETR_1, L_DELE_1} THEN 1
    ELSE IF line \in {L_RETR_2, L_DELE_2} THEN 2
    ELSE 0

\* LIST, RETR and DELE with an argument that is no number or with too many or
\* too few arguments
MalformedLines == {L_LIST_x, L_LIST_1_2, L_RETR, L_RETR_x, L_DELE_x, L_DELE}

\* this step is connection p reading a line in TRANSACTION state
ReadsInTransaction(p) ==
    /\ pop[p].pc = "run" /\ pop[p].state = "TRANSACTION"
    /\ last'.sess = p /\ last'.ev = "line"

\* this step answers connection p with a single -ERR and changes neither its
\* session and maildrop nor the mailbox
Refused(p) ==
    /\ Len(last'.replies) = 1
    /\ last'.replies[1].status = "-ERR"
    /\ last'.replies[1].payload = <<>>
    /\ pop'[p] = pop[p]
    /\ mailbox' = mailbox

\* ---- C14 -----------------------------------------------------------------------------------------
\* C14: in TRANSACTION state, LIST n, RETR n and DELE n with n outside 1..N or
\* with n marked deleted, and LIST, RETR and DELE with a non-numeric index or a
\* wrong number of arguments, are answered -ERR and leave the maildrop as it was;
\* a mark goes away only by RSET (or with the connection's closing QUIT).
C14_BadIndexRefused ==
    [][\A p \in PopIds :
          ReadsInTransaction(p)
          => /\ (last'.line \in NumberedLines
                    /\ (NumberOf(last'.line) \notin 1..Len(pop[p].maildrop.messages)
                          \/ NumberOf(last'.line) \in pop[p].maildrop.deleted)
                    => Refused(p))
             /\ (last'.line \in MalformedLines => Refused(p))
             /\ (~(pop[p].maildrop.deleted \subseteq pop'[p].maildrop.deleted)
                    => last'.line \in {L_RSET} \cup QuitLines)]_vars

\* a RETR of a message marked deleted was refused, the other message unmarked
C14_Witness ==
    /\ PopAnswered("p1", "TRANSACTION") /\ last.line = L_RETR_1
    /\ last.replies[1].status = "-ERR"
    /\ Len(pop["p1"].maildrop.messages) = 2
    /\ pop["p1"].maildrop.deleted = {1}
    /\ pop["p1"].pc = "run"

\* ---- C15 -----------------------------------------------------------------------------------------
\* this step is connection c reading a line in its command loop
ReadsCommand(c) ==
    /\ smtp[c].pc = "cmd"
    /\ last'.sess = c /\ last'.ev = "line"

\* C15: a MAIL FROM answered 250 records the sender it names and leaves the
\* recipient list empty and no body, the identity as it was; a DATA read right
\* after it is answered 503, and the recipient list stops being empty only by a
\* RCPT TO answered 250; a MAIL FROM or RCPT TO answered 501 or 503 and a DATA
\* answered 503 leave identity, sender and recipient list as they were.
C15_MailFromFrame ==
    [][\A c \in SmtpIds :
          /\ (ReadsCommand(c) /\ last'.line \in MailFromLines /\ last'.replies = <<250>>
                 => /\ smtp'[c].mail_from
                          = (IF last'.line = L_MAIL_x THEN Some(<<"x">>) ELSE Some(<<"y">>))
                    /\ smtp'[c].rcpt_to = <<>>
                    /\ smtp'[c].data = None
                    /\ smtp'[c].helo = smtp[c].helo)
          /\ (SmtpAnswered(c) /\ last.line \in MailFromLines /\ last.replies = <<250>>
                 /\ last'.sess = c /\ last'.ev = "line" /\ last'.line = L_DATA
                 => last'.replies = <<503>>)
          /\ (smtp[c].rcpt_to = <<>> /\ smtp'[c].rcpt_to # <<>>
                 => ReadsCommand(c) /\ last'.line \in RcptToLines
                       /\ last'.replies = <<250>>)
          /\ (ReadsCommand(c)
                 /\ \/ last'.line \in MailFromLines \cup RcptToLines
                          /\ last'.replies \in {<<501>>, <<503>>}
                    \/ last'.line = L_DATA /\ last'.replies = <<503>>
                 => /\ smtp'[c].helo = smtp[c].helo
                    /\ smtp'[c].mail_from = smtp[c].mail_from
                    /\ smtp'[c].rcpt_to = smtp[c].rcpt_to
                    /\ smtp'[c].data = smtp[c].data
                    /\ mailbox' = mailbox)]_vars

\* a MAIL FROM was accepted after a message had been stored: the recipients and
\* the body of that transaction are gone
C15_Witness ==
    /\ SmtpAnswered("s1") /\ last.line = L_MAIL_x /\ last.replies = <<250>>
    /\ smtp["s1"].rcpt_to = <<>>
    /\ smtp["s1"].data = None
    /\ smtp["s1"].mail_from = Some(<<"x">>)
    /\ DOMAIN mailbox # {}

\* ---- C16 -----------------------------------------------------------------------------------------
\* C16: a connection whose snapshot names a file another connection's commit has
\* removed keeps running: its RETR of that number is answered with a single
\* -ERR, without +OK line or payload, and leaves it in TRANSACTION state with
\* its maildrop as it was; its QUIT with that number marked is answered +OK,
\* removes its other marked files and refreshes.
C16_StaleSnapshot ==
    [][\A p \in PopIds :
          /\ (ReadsInTransaction(p) /\ last'.line = L_RETR_1
                 /\ Len(pop[p].maildrop.messages) >= 1
                 /\ 1 \notin pop[p].maildrop.deleted
                 /\ pop[p].maildrop.messages[1] \notin DOMAIN mailbox
                 => /\ Refused(p)
                    /\ pop'[p].state = "TRANSACTION" /\ pop'[p].pc = "run")
          /\ (QuitsFromTransaction(p) /\ ~(Marked(p) \subseteq DOMAIN mailbox)
                 => /\ Len(last'.replies) = 1
                    /\ last'.replies[1].status = "+OK"
                    /\ pop'[p].pc = "closed"
                    /\ DOMAIN mailbox' = DOMAIN mailbox \ Marked(p)
                    /\ \A f \in DOMAIN mailbox' : mailbox'[f] = mailbox[f]
                    /\ {pop'[p].maildrop.messages[i] :
                           i \in 1..Len(pop'[p].maildrop.messages)} = DOMAIN mailbox'
                    /\ pop'[p].maildrop.deleted = {})]_vars

\* a RETR was refused because the other connection's commit had removed the file,
\* with a second file of the snapshot still there
C16_Witness ==
    /\ PopAnswered("p1", "TRANSACTION") /\ last.line = L_RETR_1
    /\ last.replies[1].status = "-ERR"
    /\ pop["p1"].pc = "run" /\ pop["p1"].state = "TRANSACTION"
    /\ Len(pop["p1"].maildrop.messages) = 2
    /\ pop["p1"].maildrop.deleted = {}
    /\ pop["p1"].maildrop.messages[1] \notin DOMAIN mailbox
    /\ pop["p1"].maildrop.messages[2] \in DOMAIN mailbox
    /\ pop["p2"].pc = "closed" /\ pop["p2"].state = "TRANSACTION"

\* ---- two SMTP connections at once -------------------------------------------------------------
\* what each of the two peers sends: its own recipient and its own body line
S1CommandLines == {L_RCPT_z, L_DATA}
S1DataLines == {L_DOT, L_a}
S2CommandLines == {L_RCPT_w, L_DATA}
S2DataLines == {L_DOT, L_DOT_a}

\* both connections have sent HELO a and their MAIL FROM, s1 for <x> and s2 for
\* <y>; of MaxFiles messages all but two have been delivered and collected
InitSmtp2 ==
    /\ mailbox = <<>>
    /\ clock = 0
    /\ issued = 1..(MaxFiles - 2)
    /\ smtp = [c \in SmtpIds |->
                  MailAccepted([SmtpState0 EXCEPT !.helo = Some(<<"a">>)],
                               Some(IF c = "s1" THEN <<"x">> ELSE <<"y">>))]
    /\ pop = [p \in PopIds |-> PopSession0]
    /\ last = Exchange("s2", "line", "cmd", L_mail_y, <<250>>)

Smtp2Next ==
    \/ SmtpNext({"s1"}, S1CommandLines, S1DataLines)
    \/ SmtpNext({"s2"}, S2CommandLines, S2DataLines)

SpecSmtp2 == InitSmtp2 /\ [][Smtp2Next]_vars

\* this step ends a DATA phase of connection c and stores its message
Delivers(c) ==
    /\ smtp[c].pc = "data"
    /\ last'.sess = c /\ last'.ev \in {"line", "eof"}
    /\ last'.replies = <<250>>

\* a POP3 session that has just taken its snapshot of the directory `box`
SnapshotOf(box) ==
    [PopSession0 EXCEPT !.state = "TRANSACTION", !.user = Some(USERNAME),
                        !.maildrop = Refresh(Maildrop0, box)]

\* what RETR n answers in that session
RetrOf(box, n) == CmdRetr(SnapshotOf(box), <<(<<Digits[n + 1]>>)>>, box).replies

\* ---- C17 -----------------------------------------------------------------------------------------
\* C17: a delivery adds a file under a name no file of the mailbox has, also
\* when another connection has delivered in the same second, and leaves the
\* other files as they are; a snapshot taken afterwards numbers every file of
\* the mailbox once, and RETR of each number is answered +OK with that file's
\* own content.
C17_NoNameCollision ==
    [][\A c \in SmtpIds :
          Delivers(c)
          => /\ Cardinality(DOMAIN mailbox') = Cardinality(DOMAIN mailbox) + 1
             /\ \A f \in DOMAIN mailbox :
                   f \in DOMAIN mailbox' /\ mailbox'[f] = mailbox[f]
             /\ \E f \in DOMAIN mailbox' \ DOMAIN mailbox :
                   /\ mailbox'[f].mail_from = smtp[c].mail_from
                   /\ f.ts = clock
             /\ \A md \in {SnapshotOf(mailbox').maildrop} :
                   /\ Len(md.messages) = Cardinality(DOMAIN mailbox')
                   /\ {md.messages[i] : i \in 1..Len(md.messages)} = DOMAIN mailbox'
                   /\ \A i \in 1..Len(md.messages) :
                         \A r \in {RetrOf(mailbox', i)} :
                            /\ Len(r) = 1
                            /\ r[1].status = "+OK"
                            /\ StartsWith(r[1].payload,
                                   <<"F", "r", "o", "m", ":", " ">>
                                      \o mailbox'[md.messages[i]].mail_from[1] \o CRLF)
      ]_vars

\* both connections, still open, have delivered in the same second: the mailbox
\* holds one file of each sender with the same timestamp
C17_Witness ==
    /\ last.sess = "s2" /\ last.ev = "line" /\ last.was = "data"
    /\ last.replies = <<250>>
    /\ smtp["s1"].pc = "data" /\ smtp["s2"].pc = "cmd"
    /\ \E f, g \in DOMAIN mailbox :
          /\ f # g /\ f.ts = g.ts
          /\ mailbox[f].mail_from = Some(<<"x">>)
          /\ mailbox[g].mail_from = Some(<<"y">>)

\* ---- C18 -----------------------------------------------------------------------------------------
\* one "To: " line per recipient, in the order of the list
RECURSIVE ToBlock(_)
ToBlock(rcpts) ==
    IF rcpts = <<>> THEN <<>>
    ELSE ToBlock(SubSeq(rcpts, 1, Len(rcpts) - 1))
            \o <<"T", "o", ":", " ">> \o rcpts[Len(rcpts)] \o <<LF>>

\* the record of a message: From line, To lines, blank line, body lines
MessageText(sender, rcpts, lines) ==
    <<"F", "r", "o", "m", ":", " ">> \o sender \o <<LF>> \o ToBlock(rcpts) \o <<LF>>
        \o JoinLF(lines)

\* sender, recipients and body lines are all those of one of the two peers
OfOnePeer(sender, rcpts, lines) ==
    \/ /\ sender = Some(<<"x">>)
       /\ \A i \in 1..Len(rcpts) : rcpts[i] = <<"z">>
       /\ \A i \in 1..Len(lines) : lines[i] = <<"a">>
    \/ /\ sender = Some(<<"y">>)
       /\ \A i \in 1..Len(rcpts) : rcpts[i] = <<"w">>
       /\ \A i \in 1..Len(lines) : lines[i] = <<".", "a">>

\* C18: the lone dot of a DATA phase adds exactly one file, holding the From
\* line of the connection's sender, a To line for each of its recipients in
\* order, duplicates included, a blank line and its body lines joined; no step
\* of an SMTP connection changes or removes a file; and with two connections
\* interleaved every connection's state and every new file holds the sender,
\* recipients and body lines of one peer only.
C18_OneFilePerData ==
    [][\A c \in SmtpIds :
          /\ (smtp[c].pc = "data" /\ last'.sess = c /\ last'.ev = "line"
                 /\ RStripCRLF(last'.line) = <<".">>
                 => \E f \in DOMAIN mailbox' \ DOMAIN mailbox :
                       /\ DOMAIN mailbox' = DOMAIN mailbox \cup {f}
                       /\ FileText(mailbox'[f])
                             = MessageText(smtp[c].mail_from[1], smtp[c].rcpt_to,
                                           smtp[c].lines))
          /\ (last'.sess = c
                 => \A f \in DOMAIN mailbox :
                       f \in DOMAIN mailbox' /\ mailbox'[f] = mailbox[f])
          /\ OfOnePeer(smtp'[c].mail_from, smtp'[c].rcpt_to, smtp'[c].lines)
          /\ smtp'[c].mail_from = Some(IF c = "s1" THEN <<"x">> ELSE <<"y">>)
          /\ \A f \in DOMAIN mailbox' \ DOMAIN mailbox :
                OfOnePeer(mailbox'[f].mail_from, mailbox'[f].rcpt_to,
                          IF mailbox'[f].body = <<>> THEN <<>>
                          ELSE SplitLF(mailbox'[f].body))]_vars

\* s1 has stored a message for its recipient named twice, with two body lines,
\* while s2 was in its own DATA phase with a line read
C18_Witness ==
    /\ DataCompleted("s1")
    /\ smtp["s1"].rcpt_to = <<(<<"z">>), (<<"z">>)>>
    /\ smtp["s1"].data = Some(<<"a", LF, "a">>)
    /\ smtp["s2"].pc = "data" /\ Len(smtp["s2"].lines) = 1
    /\ \E f \in DOMAIN mailbox :
          FileText(mailbox[f])
             = <<"F", "r", "o", "m", ":", " ", "x", LF, "T", "o", ":", " ", "z", LF,
                 "T", "o", ":", " ", "z", LF, LF, "a", LF, "a">>

\* ---- C19 -----------------------------------------------------------------------------------------
\* the lines of the DATA phase that read like commands
CommandLikeLines == {L_QUIT, L_mail_y, L_DATA}

\* C19: in the DATA phase a line other than the lone dot, also one that reads
\* like a command, is answered with nothing, leaves the connection in the DATA
\* phase and leaves identity, sender, recipients and mailbox as they were; the
\* connection returns to its command loop only on the lone dot, and the line
\* after that is answered as a command.
C19_BodyLinesAreNoCommands ==
    [][\A c \in SmtpIds :
          /\ (ReadsBodyLine(c)
                 => /\ last'.replies = <<>>
                    /\ smtp'[c].pc = "data"
                    /\ smtp'[c].helo = smtp[c].helo
                    /\ smtp'[c].mail_from = smtp[c].mail_from
                    /\ smtp'[c].rcpt_to = smtp[c].rcpt_to
                    /\ mailbox' = mailbox)
          /\ (smtp[c].pc = "data" /\ smtp'[c].pc = "cmd"
                 => /\ last'.sess = c /\ last'.ev = "line"
                    /\ RStripCRLF(last'.line) = <<".">>)
          /\ (DataCompleted(c) /\ last'.sess = c /\ last'.ev = "line"
                 => /\ Len(last'.replies) = 1
                    /\ (last'.line = L_QUIT
                           => last'.replies = <<221>> /\ smtp'[c].pc = "closed"))]_vars

\* QUIT was read as the second body line, after a MAIL FROM line: no answer,
\* the connection still in the DATA phase with the sender it had
C19_Witness ==
    /\ last.sess = "s1" /\ last.ev = "line" /\ last.was = "data"
    /\ last.line = L_QUIT /\ last.replies = <<>>
    /\ smtp["s1"].pc = "data"
    /\ smtp["s1"].mail_from = Some(<<"x">>)
    /\ Len(smtp["s1"].lines) = 2
    /\ smtp["s1"].lines[2] = <<"Q", "U", "I", "T">>
    /\ Upper(smtp["s1"].lines[1]) = Upper(RStripCRLF(L_mail_y))

\* ---- C20 -----------------------------------------------------------------------------------------
\* C20: the payload of every RETR answered +OK ends with CRLF, its last line is
\* a single dot, no line before that one is a single dot, and no line holds a
\* CR or LF of its own; a stored line that is a single dot is sent as two dots.
C20_EndMarkerUnambiguous ==
    \A p \in PopIds :
        RetrAnswered(p)
        => \A sent \in {RetrSent(p)} :
              /\ Len(sent) >= 2
              /\ sent[Len(sent)] = <<>>
              /\ sent[Len(sent) - 1] = <<".">>
              /\ \A i \in 1..(Len(sent) - 2) :
                    /\ sent[i] # <<".">>
                    /\ \A k \in 1..Len(sent[i]) : sent[i][k] \notin {CR, LF}
              /\ \A stored \in {RetrStored(p)} :
                    /\ Len(sent) = Len(stored) + 2
                    /\ \A i \in 1..Len(stored) :
                          stored[i] = <<".">> => sent[i] = <<".", ".">>

\* a file whose body is a CR and a dot has been retrieved: the dot after the CR
\* is a line of its own in the payload, sent as two dots
C20_Witness ==
    /\ RetrAnswered("p1")
    /\ mailbox[pop["p1"].maildrop.messages[1]].body = <<CR, ".">>
    /\ RetrSent("p1")[Len(RetrSent("p1")) - 2] = <<".", ".">>
    /\ RetrSent("p1")[Len(RetrSent("p1")) - 1] = <<".">>

====
